---- MODULE Spec2Model ----
(***************************************************************************)
(* Model of rv_geojson.py: flattening of geojson geometries, the bounding  *)
(* box scan, and the Mercator zoom heuristic.                              *)
(*                                                                         *)
(* The module's functions are pure; the state is the last call made (its   *)
(* name, arguments and outcome) and, for relational properties, a second   *)
(* call made next to it.  An outcome is a returned value or a raised       *)
(* exception.                                                              *)
(*                                                                         *)
(* Degrees are integers in units of 1e-4 degree, so the span table of      *)
(* get_zoom_mercator is exact.  Zoom levels are integers in hundredths     *)
(* (round(z, 2)), centers integers in units of 1e-6 degree (round(c, 6)).  *)
(* Arithmetic is exact rational arithmetic; binary floating point error of *)
(* the interpreter is not modelled.                                        *)
(***************************************************************************)
EXTENDS Integers, Sequences, FiniteSets, TLC

VARIABLES call, args, result, args2, result2

vars == <<call, args, result, args2, result2>>

(***************************************************************************)
(* Python values.                                                          *)
(***************************************************************************)
None == [k |-> "None"]

Num(n) == [k |-> "num", v |-> n]

List(s) == [k |-> "list", items |-> s]

Tuple(s) == [k |-> "tuple", items |-> s]

\* a coordinate pair [x, y] as stored in a geojson coordinates array
Pair(x, y) == List(<<Num(x), Num(y)>>)

(***************************************************************************)
(* Outcomes of a call.                                                     *)
(***************************************************************************)
Return(v) == [kind |-> "ok", value |-> v]

Raise(e) == [kind |-> e, value |-> None]

(***************************************************************************)
(* flatten_list: yields every element whose first item is a number, and    *)
(* recurses into the others.  e[0] on a number raises TypeError, on an     *)
(* empty list IndexError.                                                  *)
(***************************************************************************)
RECURSIVE flatten_list(_)
RECURSIVE flatten_items(_)

flatten_items(items) ==
  IF items = <<>> THEN Return(<<>>)
  ELSE LET e == Head(items) IN
       IF e.k = "num" THEN Raise("TypeError")
       ELSE IF e.items = <<>> THEN Raise("IndexError")
       ELSE LET first == IF e.items[1].k = "num" THEN Return(<<e>>)
                         ELSE flatten_list(e)
            IN IF first.kind # "ok" THEN first
               ELSE LET rest == flatten_items(Tail(items)) IN
                    IF rest.kind # "ok" THEN rest
                    ELSE Return(first.value \o rest.value)

flatten_list(L) ==
  IF L.k = "num" THEN Raise("TypeError") ELSE flatten_items(L.items)

(***************************************************************************)
(* gen_geometries: the geometries of every feature in order; a             *)
(* GeometryCollection contributes its children, any other geometry itself. *)
(***************************************************************************)
RECURSIVE gen_geometries_from(_)
gen_geometries_from(features) ==
  IF features = <<>> THEN <<>>
  ELSE LET feat == Head(features) IN
       (IF feat.geometry.type = "GeometryCollection"
          THEN feat.geometry.geometries
          ELSE <<feat.geometry>>) \o gen_geometries_from(Tail(features))

gen_geometries(geojson) == gen_geometries_from(geojson.features)

\* geom['coordinates'] of each geometry, flattened and concatenated
RECURSIVE collect_pairs(_)
collect_pairs(geoms) ==
  IF geoms = <<>> THEN Return(<<>>)
  ELSE LET geom == Head(geoms) IN
       IF "coordinates" \notin DOMAIN geom THEN Raise("KeyError")
       ELSE LET first == flatten_list(geom.coordinates) IN
            IF first.kind # "ok" THEN first
            ELSE LET rest == collect_pairs(Tail(geoms)) IN
                 IF rest.kind # "ok" THEN rest
                 ELSE Return(first.value \o rest.value)

\* p[i] of a yielded pair (Python index i, 0-based)
Item(p, i) == p.items[i + 1].v

\* one tuple of zip(*pairs)
Column(pairs, i) == [j \in 1..Len(pairs) |-> Item(pairs[j], i)]

FormatsAccepted == {"lonlat", "lanlot"}

flatten_geometries(geojson, format, return_pairs) ==
  IF format \notin FormatsAccepted THEN Raise("NotImplementedError")
  ELSE IF Len(geojson.features) = 0 THEN Raise("ValueError")
  ELSE LET ps == collect_pairs(gen_geometries(geojson)) IN
       IF ps.kind # "ok" THEN ps
       ELSE IF ps.value = <<>> THEN Raise("ValueError")
       ELSE LET pairs == ps.value
                lons == IF format = "lonlat" THEN Column(pairs, 0)
                        ELSE Column(pairs, 1)
                lats == IF format = "lonlat" THEN Column(pairs, 1)
                        ELSE Column(pairs, 0)
            IN IF return_pairs THEN Return(<<lons, lats, pairs>>)
               ELSE Return(<<lons, lats>>)

(***************************************************************************)
(* get_box: the running box starts at the sentinels and every point is     *)
(* scanned with an if / elif per axis.                                     *)
(***************************************************************************)
SentinelMin == 1800000

SentinelMax == -1800000

box_step(b, p) ==
  LET lon == IF b.minlon > Item(p, 0) THEN [b EXCEPT !.minlon = Item(p, 0)]
             ELSE IF b.maxlon < Item(p, 0) THEN [b EXCEPT !.maxlon = Item(p, 0)]
             ELSE b
  IN IF lon.minlat > Item(p, 1) THEN [lon EXCEPT !.minlat = Item(p, 1)]
     ELSE IF lon.maxlat < Item(p, 1) THEN [lon EXCEPT !.maxlat = Item(p, 1)]
     ELSE lon

RECURSIVE box_scan(_, _)
box_scan(b, pairs) ==
  IF pairs = <<>> THEN b ELSE box_scan(box_step(b, Head(pairs)), Tail(pairs))

get_box(geojson, format) ==
  IF format \notin FormatsAccepted THEN Raise("NotImplementedError")
  ELSE IF Len(geojson.features) = 0 THEN Raise("ValueError")
  ELSE LET ps == collect_pairs(gen_geometries(geojson)) IN
       IF ps.kind # "ok" THEN ps
       ELSE LET b == box_scan([minlon |-> SentinelMin, minlat |-> SentinelMin,
                               maxlon |-> SentinelMax, maxlat |-> SentinelMax],
                              ps.value)
            IN IF format = "lonlat"
                 THEN Return(<<<<b.minlon, b.maxlon>>, <<b.minlat, b.maxlat>>>>)
                 ELSE Return(<<<<b.minlat, b.maxlat>>, <<b.minlon, b.maxlon>>>>)

(***************************************************************************)
(* Exact rationals.  A rational is [whole, num, den] with value            *)
(* whole + num/den and 0 <= num < den.                                     *)
(***************************************************************************)
Rat(w, n, d) == [whole |-> w + (n \div d), num |-> n % d, den |-> d]

\* a/b < c/d for 0 <= a < b and 0 <= c < d, by the Euclidean expansion
RECURSIVE FracLess(_, _, _, _)
FracLess(a, b, c, d) ==
  IF c = 0 THEN FALSE
  ELSE IF a = 0 THEN TRUE
  ELSE IF (b \div a) # (d \div c) THEN (b \div a) > (d \div c)
  ELSE FracLess(d % c, c, b % a, a)

RatLess(x, y) ==
  \/ x.whole < y.whole
  \/ x.whole = y.whole /\ FracLess(x.num, x.den, y.num, y.den)

\* min(x, y) of Python: the first argument unless the second is smaller
RatMin(x, y) == IF RatLess(y, x) THEN y ELSE x

\* n/d rounded to the nearest integer, ties to the even one (Python round)
RoundHalfEven(n, d) ==
  LET q == n \div d
      r == n % d
  IN IF 2 * r < d THEN q
     ELSE IF 2 * r > d THEN q + 1
     ELSE IF q % 2 = 0 THEN q ELSE q + 1

\* round(x, 2) in hundredths; 100 * whole is even, so ties fall as in x
Round2(x) == 100 * x.whole + RoundHalfEven(100 * x.num, x.den)

(***************************************************************************)
(* get_zoom_mercator                                                       *)
(***************************************************************************)
\* longitudinal range by zoom level, in units of 1e-4 degree
lon_zoom_range ==
  <<7, 14, 30, 60, 120, 240, 480, 960, 1920, 3712, 7680, 15360, 30720,
    61440, 118784, 237568, 475136, 983040, 1900544, 3600000>>

\* the zoom levels paired with the table in the wrong direction
zoom_levels_ascending == [i \in 1..20 |-> i]

\* range(20, 0, -1)
zoom_levels == [i \in 1..20 |-> 21 - i]

\* margin = 1.2
margin == [num |-> 6, den |-> 5]

\* np.interp(xn / xd, xp, fp): piecewise linear, clamped at both ends
interp(xn, xd, xp, fp) ==
  IF xn <= xp[1] * xd THEN Rat(fp[1], 0, 1)
  ELSE IF xn >= xp[Len(xp)] * xd THEN Rat(fp[Len(xp)], 0, 1)
  ELSE LET j == CHOOSE i \in 1..(Len(xp) - 1) :
                  xp[i] * xd <= xn /\ xn < xp[i + 1] * xd
       IN Rat(fp[j], (fp[j + 1] - fp[j]) * (xn - xp[j] * xd),
              xd * (xp[j + 1] - xp[j]))

\* the less constraining axis wins
get_zoom_mercator_max(minlon, maxlon, minlat, maxlat, w2h) ==
  LET heightn == (maxlat - minlat) * margin.num * w2h[1]
      heightd == margin.den * w2h[2]
      widthn == (maxlon - minlon) * margin.num
      widthd == margin.den
      lon_zoom == interp(widthn, widthd, lon_zoom_range, zoom_levels)
      lat_zoom == interp(heightn, heightd, lon_zoom_range, zoom_levels)
  IN Round2(IF RatLess(lon_zoom, lat_zoom) THEN lat_zoom ELSE lon_zoom)

\* width_to_height is the rational w2h[1] / w2h[2]
get_zoom_mercator(minlon, maxlon, minlat, maxlat, w2h) ==
  LET heightn == (maxlat - minlat) * margin.num * w2h[1]
      heightd == margin.den * w2h[2]
      widthn == (maxlon - minlon) * margin.num
      widthd == margin.den
      lon_zoom == interp(widthn, widthd, lon_zoom_range, zoom_levels)
      lat_zoom == interp(heightn, heightd, lon_zoom_range, zoom_levels)
  IN Round2(RatMin(lon_zoom, lat_zoom))

(***************************************************************************)
(* zoom_center and zoom_on_box                                             *)
(***************************************************************************)
RECURSIVE SeqMax(_)
SeqMax(s) ==
  IF Len(s) = 1 THEN s[1]
  ELSE LET m == SeqMax(Tail(s)) IN IF m > s[1] THEN m ELSE s[1]

RECURSIVE SeqMin(_)
SeqMin(s) ==
  IF Len(s) = 1 THEN s[1]
  ELSE LET m == SeqMin(Tail(s)) IN IF m < s[1] THEN m ELSE s[1]

\* round((hi + lo) / 2, 6) in units of 1e-6 degree
Midpoint(hi, lo) == RoundHalfEven((hi + lo) * 100, 2)

\* an unsupported projection silently falls back to the mercator estimate
zoom_center_body_fallback(lons, lats, projection, w2h) ==
  IF lons.k = "None" THEN Raise("TypeError")
  ELSE IF lons.items = <<>> THEN Raise("ValueError")
  ELSE IF lats.k = "None" THEN Raise("TypeError")
  ELSE IF lats.items = <<>> THEN Raise("ValueError")
  ELSE Return(<<get_zoom_mercator(SeqMin(lons.items), SeqMax(lons.items),
                                  SeqMin(lats.items), SeqMax(lats.items), w2h),
                [lon |-> Midpoint(SeqMax(lons.items), SeqMin(lons.items)),
                 lat |-> Midpoint(SeqMax(lats.items), SeqMin(lats.items))]>>)

\* the statements of zoom_center after the argument check
zoom_center_body(lons, lats, projection, w2h) ==
  IF lons.k = "None" THEN Raise("TypeError")
  ELSE IF lons.items = <<>> THEN Raise("ValueError")
  ELSE IF lats.k = "None" THEN Raise("TypeError")
  ELSE IF lats.items = <<>> THEN Raise("ValueError")
  ELSE LET maxlon == SeqMax(lons.items)
           minlon == SeqMin(lons.items)
           maxlat == SeqMax(lats.items)
           minlat == SeqMin(lats.items)
           center == [lon |-> Midpoint(maxlon, minlon),
                      lat |-> Midpoint(maxlat, minlat)]
       IN IF projection = "mercator"
            THEN Return(<<get_zoom_mercator(minlon, maxlon, minlat, maxlat, w2h),
                          center>>)
            ELSE Raise("NotImplementedError")

zoom_center(lons, lats, lonlats, format, projection, w2h) ==
  IF lons.k = "None" /\ lats.k = "None"
    THEN IF lonlats.k = "tuple"
           THEN IF lonlats.items = <<>> THEN Raise("ValueError")
                ELSE zoom_center_body(
                       Tuple([j \in 1..Len(lonlats.items) |-> lonlats.items[j][1]]),
                       Tuple([j \in 1..Len(lonlats.items) |-> lonlats.items[j][2]]),
                       projection, w2h)
           ELSE Raise("ValueError")
    ELSE zoom_center_body(lons, lats, projection, w2h)

zoom_on_box(box, format, w2h) ==
  IF format \notin {"lonlat", "latlon"} THEN Raise("ValueError")
  ELSE LET minlon == box[1][1]
           maxlon == box[1][2]
           minlat == box[2][1]
           maxlat == box[2][2]
           center == [lon |-> Midpoint(maxlon, minlon),
                      lat |-> Midpoint(maxlat, minlat)]
       IN Return(<<get_zoom_mercator(minlon, maxlon, minlat, maxlat, w2h),
                   center>>)

(***************************************************************************)
(* Inputs.                                                                 *)
(***************************************************************************)
MaxLen == 2

MaxRings == 1

MaxGeoms == 2

MaxFeatures == 2

MaxPerm == 4

MaxPts == 2

SeqsUpTo(S, lo, hi) == UNION {[1..n -> S] : n \in lo..hi}

\* (-100, 20) and (200, -5) degrees: the second lies outside [-180, 180]
PairVals == {<<-1000000, 200000>>, <<2000000, -50000>>}

PairNodes == {Pair(p[1], p[2]) : p \in PairVals}

Points == {[type |-> "Point", coordinates |-> p] : p \in PairNodes}

LineStrings ==
  {[type |-> "LineString", coordinates |-> List(l)] :
     l \in SeqsUpTo(PairNodes, 0, MaxLen)}

Rings == {List(r) : r \in SeqsUpTo(PairNodes, 1, MaxLen)}

Polygons ==
  {[type |-> "Polygon", coordinates |-> List(rs)] :
     rs \in SeqsUpTo(Rings, 1, MaxRings)}

SimpleGeometries == Points \cup LineStrings \cup Polygons

GeometryCollections ==
  {[type |-> "GeometryCollection", geometries |-> gs] :
     gs \in SeqsUpTo(SimpleGeometries, 0, MaxGeoms)}

Feature(g) == [type |-> "Feature", geometry |-> g]

FeatureCollection(fs) == [type |-> "FeatureCollection", features |-> fs]

Collections ==
  {FeatureCollection(fs) :
     fs \in SeqsUpTo({Feature(g) : g \in SimpleGeometries}, 0, MaxFeatures)}
  \cup {FeatureCollection(<<Feature(g)>>) : g \in GeometryCollections}

Formats == {"lonlat", "latlon", "lanlot", "xy"}

Orderings(n) == {f \in [1..n -> 1..n] : \A i, j \in 1..n : f[i] = f[j] => i = j}

\* degrees in units of 1e-4: -180, 0, 0.0005, 10, 180
ZCoords == {-1800000, 0, 5, 100000, 1800000}

Intervals == {iv \in ZCoords \X ZCoords : iv[1] <= iv[2]}

CenterCoords == {-1800000, 0, 100000}

Ratios == {<<1, 2>>, <<1, 1>>, <<2, 1>>}

Projections == {"mercator", "albers"}

NumTuples == {Tuple(s) : s \in SeqsUpTo(CenterCoords, 0, MaxPts)}

PairSeqs == SeqsUpTo(CenterCoords \X CenterCoords, 0, MaxPts)

(***************************************************************************)
(* State machine: every action is one call, or two calls of the same       *)
(* function on related arguments.  The functions keep no state between     *)
(* calls, so a behaviour is one invocation from the initial state.         *)
(***************************************************************************)
Init ==
  /\ call = "none"
  /\ args = None
  /\ result = None
  /\ args2 = None
  /\ result2 = None

GetBox ==
  /\ call = "none"
  /\ \E g \in Collections, f \in Formats :
    /\ call' = "get_box"
    /\ args' = [geojson |-> g, format |-> f]
    /\ result' = get_box(g, f)
    /\ args2' = None
    /\ result2' = None

\* get_box on a collection and on a collection holding the same pairs in
\* another order
GetBoxPermuted ==
  /\ call = "none"
  /\ \E g \in Collections, f \in Formats :
    LET ps == collect_pairs(gen_geometries(g)) IN
    /\ ps.kind = "ok"
    /\ Len(ps.value) \in 1..MaxPerm
    /\ \E perm \in Orderings(Len(ps.value)) :
         LET g2 == FeatureCollection(<<Feature(
                     [type |-> "MultiPoint",
                      coordinates |->
                        List([i \in 1..Len(ps.value) |-> ps.value[perm[i]]])])>>)
         IN /\ call' = "get_box"
            /\ args' = [geojson |-> g, format |-> f]
            /\ result' = get_box(g, f)
            /\ args2' = [geojson |-> g2, format |-> f]
            /\ result2' = get_box(g2, f)

FlattenGeometries ==
  /\ call = "none"
  /\ \E g \in Collections, f \in Formats, rp \in BOOLEAN :
    /\ call' = "flatten_geometries"
    /\ args' = [geojson |-> g, format |-> f, return_pairs |-> rp]
    /\ result' = flatten_geometries(g, f, rp)
    /\ args2' = None
    /\ result2' = None

NextGeo == GetBox \/ GetBoxPermuted \/ FlattenGeometries

SpecGeo == Init /\ [][NextGeo]_vars

MercatorArgs(lon, lat, r) ==
  [minlon |-> lon[1], maxlon |-> lon[2], minlat |-> lat[1], maxlat |-> lat[2],
   width_to_height |-> r]

MercatorCall(a) ==
  Return(get_zoom_mercator(a.minlon, a.maxlon, a.minlat, a.maxlat,
                           a.width_to_height))

GetZoomMercator ==
  /\ call = "none"
  /\ \E lon \in ZCoords \X ZCoords, lat \in ZCoords \X ZCoords, r \in Ratios :
    /\ call' = "get_zoom_mercator"
    /\ args' = MercatorArgs(lon, lat, r)
    /\ result' = MercatorCall(args')
    /\ args2' = None
    /\ result2' = None

\* two boxes that differ on one axis only
GetZoomMercatorTwice ==
  /\ call = "none"
  /\ \E lon \in Intervals, lat \in Intervals, other \in Intervals,
     onlon \in BOOLEAN, r \in Ratios :
    /\ call' = "get_zoom_mercator"
    /\ args' = MercatorArgs(lon, lat, r)
    /\ result' = MercatorCall(args')
    /\ args2' = IF onlon THEN MercatorArgs(other, lat, r)
                ELSE MercatorArgs(lon, other, r)
    /\ result2' = MercatorCall(args2')

CenterArgs(lons, lats, lonlats, f, pr, r) ==
  [lons |-> lons, lats |-> lats, lonlats |-> lonlats, format |-> f,
   projection |-> pr, width_to_height |-> r]

CenterCall(a) ==
  zoom_center(a.lons, a.lats, a.lonlats, a.format, a.projection,
              a.width_to_height)

ZoomCenter ==
  /\ call = "none"
  /\ \E f \in {"lonlat", "latlon"}, pr \in Projections, r \in Ratios :
    /\ \/ \E lons \in NumTuples \cup {None}, lats \in NumTuples \cup {None} :
            args' = CenterArgs(lons, lats, None, f, pr, r)
       \/ \E ps \in PairSeqs :
            \/ args' = CenterArgs(None, None, Tuple(ps), f, pr, r)
            \/ args' = CenterArgs(None, None, List(ps), f, pr, r)
    /\ call' = "zoom_center"
    /\ result' = CenterCall(args')
    /\ args2' = None
    /\ result2' = None

\* two point sets that differ on one axis only
ZoomCenterTwice ==
  /\ call = "none"
  /\ \E lons \in NumTuples, lats \in NumTuples, other \in NumTuples,
     onlon \in BOOLEAN, r \in Ratios :
    /\ lons.items # <<>> /\ lats.items # <<>> /\ other.items # <<>>
    /\ call' = "zoom_center"
    /\ args' = CenterArgs(lons, lats, None, "lonlat", "mercator", r)
    /\ result' = CenterCall(args')
    /\ args2' = IF onlon
                  THEN CenterArgs(other, lats, None, "lonlat", "mercator", r)
                  ELSE CenterArgs(lons, other, None, "lonlat", "mercator", r)
    /\ result2' = CenterCall(args2')

Reversed(ps) == [j \in 1..Len(ps) |-> <<ps[j][2], ps[j][1]>>]

\* the same points as (lon, lat) pairs and as (lat, lon) pairs
ZoomCenterSwapped ==
  /\ call = "none"
  /\ \E ps \in PairSeqs, r \in Ratios :
    /\ ps # <<>>
    /\ call' = "zoom_center"
    /\ args' = CenterArgs(None, None, Tuple(ps), "lonlat", "mercator", r)
    /\ result' = CenterCall(args')
    /\ args2' = CenterArgs(None, None, Tuple(Reversed(ps)), "latlon",
                           "mercator", r)
    /\ result2' = CenterCall(args2')

BoxArgs(box, f, r) == [box |-> box, format |-> f, width_to_height |-> r]

BoxCall(a) == zoom_on_box(a.box, a.format, a.width_to_height)

ZoomOnBox ==
  /\ call = "none"
  /\ \E lon \in ZCoords \X ZCoords, lat \in ZCoords \X ZCoords,
     f \in {"lonlat", "latlon", "xy"}, r \in Ratios :
    /\ call' = "zoom_on_box"
    /\ args' = BoxArgs(<<lon, lat>>, f, r)
    /\ result' = BoxCall(args')
    /\ args2' = None
    /\ result2' = None

ZoomOnBoxTwice ==
  /\ call = "none"
  /\ \E lon \in Intervals, lat \in Intervals, other \in Intervals,
     onlon \in BOOLEAN, r \in Ratios :
    /\ call' = "zoom_on_box"
    /\ args' = BoxArgs(<<lon, lat>>, "lonlat", r)
    /\ result' = BoxCall(args')
    /\ args2' = IF onlon THEN BoxArgs(<<other, lat>>, "lonlat", r)
                ELSE BoxArgs(<<lon, other>>, "lonlat", r)
    /\ result2' = BoxCall(args2')

\* the same box as ((lon), (lat)) and as ((lat), (lon))
ZoomOnBoxSwapped ==
  /\ call = "none"
  /\ \E lon \in Intervals, lat \in Intervals, r \in Ratios :
    /\ call' = "zoom_on_box"
    /\ args' = BoxArgs(<<lon, lat>>, "lonlat", r)
    /\ result' = BoxCall(args')
    /\ args2' = BoxArgs(<<lat, lon>>, "latlon", r)
    /\ result2' = BoxCall(args2')

NextZoom ==
  \/ GetZoomMercator
  \/ GetZoomMercatorTwice
  \/ ZoomCenter
  \/ ZoomCenterTwice
  \/ ZoomCenterSwapped
  \/ ZoomOnBox
  \/ ZoomOnBoxTwice
  \/ ZoomOnBoxSwapped

SpecZoom == Init /\ [][NextZoom]_vars

(***************************************************************************)
(* Properties of the geometry functions (SpecGeo).                         *)
(***************************************************************************)
\* the pairs a collection holds, as the flattening of the source finds them
PairsOf(geojson) == collect_pairs(gen_geometries(geojson))

\* the pairs of one geometry by its kind, in input order
RECURSIVE ConcatItems(_)
ConcatItems(lists) ==
  IF lists = <<>> THEN <<>>
  ELSE Head(lists).items \o ConcatItems(Tail(lists))

KindPairs(geom) ==
  IF geom.type = "Point" THEN <<geom.coordinates>>
  ELSE IF geom.type = "Polygon" THEN ConcatItems(geom.coordinates.items)
  ELSE geom.coordinates.items

RECURSIVE ExpectedPairs(_)
ExpectedPairs(geoms) ==
  IF geoms = <<>> THEN <<>>
  ELSE KindPairs(Head(geoms)) \o ExpectedPairs(Tail(geoms))

SameUpToOrder(s, t) ==
  /\ Len(s) = Len(t)
  /\ \E perm \in Orderings(Len(s)) : \A i \in 1..Len(s) : t[i] = s[perm[i]]

IsGeoCall == call \in {"get_box", "flatten_geometries"}

\* C1: for every collection holding at least one coordinate pair, the box
\* ((minlon, maxlon), (minlat, maxlat)) that get_box returns with format
\* 'lonlat' encloses every flattened pair, hence minlon <= maxlon and
\* minlat <= maxlat.
C1_BoxEnclosesEveryPair ==
  (/\ call = "get_box"
   /\ args.format = "lonlat"
   /\ PairsOf(args.geojson).kind = "ok"
   /\ PairsOf(args.geojson).value # <<>>)
  => /\ result.kind = "ok"
     /\ \A i \in 1..Len(PairsOf(args.geojson).value) :
          LET p == PairsOf(args.geojson).value[i] IN
          /\ result.value[1][1] <= Item(p, 0)
          /\ Item(p, 0) <= result.value[1][2]
          /\ result.value[2][1] <= Item(p, 1)
          /\ Item(p, 1) <= result.value[2][2]
     /\ result.value[1][1] <= result.value[1][2]
     /\ result.value[2][1] <= result.value[2][2]

\* C2: get_box is order-independent: two collections whose flattened pairs
\* are permutations of each other get the same box.
C2_BoxOrderIndependent ==
  (/\ call = "get_box"
   /\ args2 # None
   /\ PairsOf(args.geojson).kind = "ok"
   /\ PairsOf(args2.geojson).kind = "ok"
   /\ SameUpToOrder(PairsOf(args.geojson).value, PairsOf(args2.geojson).value))
  => result = result2

\* C3: flattening emits, without error, every coordinate pair of every
\* geometry kind once and in input order: a GeometryCollection of a Polygon
\* and a Point yields the Polygon's pairs in ring order then point order,
\* followed by the Point's pair.
C3_FlattenEmitsPairsInOrder ==
  (/\ call = "flatten_geometries"
   /\ args.format = "lonlat"
   /\ args.return_pairs
   /\ ExpectedPairs(gen_geometries(args.geojson)) # <<>>)
  => /\ result.kind = "ok"
     /\ result.value[3] = ExpectedPairs(gen_geometries(args.geojson))

\* C4: flatten_geometries and get_box accept 'lonlat' and 'latlon' and raise
\* the format error for any other tag only; with 'latlon' flatten_geometries
\* returns lons = second elements and lats = first elements of the pairs.
C4_BothFormatTagsAccepted ==
  IsGeoCall
  => /\ (result.kind = "NotImplementedError")
          <=> (args.format \notin {"lonlat", "latlon"})
     /\ (/\ call = "flatten_geometries"
         /\ args.format = "latlon"
         /\ PairsOf(args.geojson).kind = "ok"
         /\ PairsOf(args.geojson).value # <<>>)
        => /\ result.kind = "ok"
           /\ result.value[1] = Column(PairsOf(args.geojson).value, 1)
           /\ result.value[2] = Column(PairsOf(args.geojson).value, 0)

\* C10: get_box and flatten_geometries on a collection with zero features
\* raise ValueError and return nothing, for either format tag.
C10_EmptyCollectionRaisesValueError ==
  (/\ IsGeoCall
   /\ args.geojson.features = <<>>
   /\ args.format \in {"lonlat", "latlon"})
  => /\ result.kind = "ValueError"
     /\ result.value = None

(***************************************************************************)
(* Properties of the zoom functions (SpecZoom).                            *)
(***************************************************************************)
\* the second call repeats the first on arguments that differ on one axis
IsTwice ==
  /\ call \in {"get_zoom_mercator", "zoom_center", "zoom_on_box"}
  /\ args2 # None
  /\ call # "get_zoom_mercator" => args2.format = "lonlat"

\* the second call repeats the first with the axes and the format tag swapped
IsSwapped ==
  /\ call \in {"zoom_center", "zoom_on_box"}
  /\ args2 # None
  /\ args2.format = "latlon"

LonSpan(a) ==
  IF call = "get_zoom_mercator" THEN a.maxlon - a.minlon
  ELSE IF call = "zoom_on_box" THEN a.box[1][2] - a.box[1][1]
  ELSE SeqMax(a.lons.items) - SeqMin(a.lons.items)

LatSpan(a) ==
  IF call = "get_zoom_mercator" THEN a.maxlat - a.minlat
  ELSE IF call = "zoom_on_box" THEN a.box[2][2] - a.box[2][1]
  ELSE SeqMax(a.lats.items) - SeqMin(a.lats.items)

ZoomOf(r) == IF call = "get_zoom_mercator" THEN r.value ELSE r.value[1]

\* the segment of the span table that holds xn / xd
Segment(xn, xd) ==
  CHOOSE i \in 1..19 :
    lon_zoom_range[i] * xd <= xn /\ xn <= lon_zoom_range[i + 1] * xd

\* (e - z) * d, where e is the interpolated zoom of xn / xd in hundredths and
\* d the denominator xd * (width of the segment); z lies in the segment
Deviation(z, xn, xd) ==
  LET i == Segment(xn, xd) IN
  (100 * (21 - i) - z) * (xd * (lon_zoom_range[i + 1] - lon_zoom_range[i]))
    - 100 * (xn - lon_zoom_range[i] * xd)

HalfWidth(xn, xd) ==
  LET i == Segment(xn, xd) IN
  (xd * (lon_zoom_range[i + 1] - lon_zoom_range[i])) \div 2

\* z is the interpolated zoom of the span xn / xd to the nearest hundredth
IsAxisZoom(z, xn, xd) ==
  IF xn <= lon_zoom_range[1] * xd THEN z = 2000
  ELSE IF xn >= lon_zoom_range[20] * xd THEN z = 100
  ELSE /\ z >= 100 * (20 - Segment(xn, xd))
       /\ z <= 100 * (21 - Segment(xn, xd))
       /\ Deviation(z, xn, xd) <= HalfWidth(xn, xd)
       /\ -Deviation(z, xn, xd) <= HalfWidth(xn, xd)

\* z is not above the interpolated zoom of the span xn / xd
NotAboveAxisZoom(z, xn, xd) ==
  IF xn <= lon_zoom_range[1] * xd THEN z <= 2000
  ELSE IF xn >= lon_zoom_range[20] * xd THEN z <= 100
  ELSE \/ z <= 100 * (20 - Segment(xn, xd))
       \/ /\ z <= 100 * (21 - Segment(xn, xd))
          /\ -Deviation(z, xn, xd) <= HalfWidth(xn, xd)

ValidBox(a) == a.minlon <= a.maxlon /\ a.minlat <= a.maxlat

WidthN(a) == (a.maxlon - a.minlon) * 6

HeightN(a) == (a.maxlat - a.minlat) * 6 * a.width_to_height[1]

HeightD(a) == 5 * a.width_to_height[2]

IsSmallerAxisZoom(z, a) ==
  /\ IsAxisZoom(z, WidthN(a), 5) \/ IsAxisZoom(z, HeightN(a), HeightD(a))
  /\ NotAboveAxisZoom(z, WidthN(a), 5)
  /\ NotAboveAxisZoom(z, HeightN(a), HeightD(a))

FullTurn == lon_zoom_range[20]

\* C5: zoom estimation is invariant under swapping the format tag together
\* with the axis order of the data, for zoom_center on pairs and zoom_on_box
\* on a box, for both the zoom and the center.
C5_ZoomInvariantUnderAxisSwap ==
  IsSwapped => result2 = result

\* C6 as stated: for every box with minlon <= maxlon, minlat <= maxlat and a
\* positive ratio, get_zoom_mercator returns the smaller of the two axis
\* zooms; it lies in [1, 20], a zero-span box gives 20 and a box of span
\* >= 360 degrees on either axis gives 1.
C6_SpanOfFullTurnOnEitherAxisGivesOne ==
  (/\ call = "get_zoom_mercator"
   /\ args2 = None
   /\ ValidBox(args))
  => /\ IsSmallerAxisZoom(result.value, args)
     /\ result.value >= 100 /\ result.value <= 2000
     /\ (args.maxlon = args.minlon /\ args.maxlat = args.minlat)
          => result.value = 2000
     /\ (\/ args.maxlon - args.minlon >= FullTurn
         \/ args.maxlat - args.minlat >= FullTurn)
          => result.value = 100

\* C6 amended: for every box with minlon <= maxlon, minlat <= maxlat and a
\* positive ratio, get_zoom_mercator returns the smaller of the two axis
\* zooms to two decimals; it lies in [1, 20], a zero-span box gives 20, and
\* a box whose longitude span is >= 360 degrees, or whose latitude span
\* times 1.2 times the ratio is >= 360 degrees, gives 1.
C6_SmallerAxisZoomClamped ==
  (/\ call = "get_zoom_mercator"
   /\ args2 = None
   /\ ValidBox(args))
  => /\ IsSmallerAxisZoom(result.value, args)
     /\ result.value >= 100 /\ result.value <= 2000
     /\ (args.maxlon = args.minlon /\ args.maxlat = args.minlat)
          => result.value = 2000
     /\ (\/ args.maxlon - args.minlon >= FullTurn
         \/ HeightN(args) >= FullTurn * HeightD(args))
          => result.value = 100

\* a latitude span of a full turn that a ratio below 1 / 1.2 leaves above
\* zoom 1
C6_Witness ==
  /\ call = "get_zoom_mercator"
  /\ args2 = None
  /\ ValidBox(args)
  /\ args.maxlat - args.minlat >= FullTurn
  /\ result.value > 100
  /\ result.value < 2000

\* C7: zoom is monotone non-increasing in the box extent: with the same
\* ratio, a box with a larger span on one axis and the same span on the other
\* never gets a greater zoom, for get_zoom_mercator, zoom_on_box and
\* zoom_center.
C7_ZoomMonotoneInExtent ==
  (/\ IsTwice
   /\ result.kind = "ok" /\ result2.kind = "ok"
   /\ \/ LonSpan(args2) > LonSpan(args) /\ LatSpan(args2) = LatSpan(args)
      \/ LatSpan(args2) > LatSpan(args) /\ LonSpan(args2) = LonSpan(args))
  => ZoomOf(result2) <= ZoomOf(result)

\* a wider box that gets a strictly smaller zoom
C7_Witness ==
  /\ IsTwice
  /\ result.kind = "ok" /\ result2.kind = "ok"
  /\ LonSpan(args2) > LonSpan(args) /\ LatSpan(args2) = LatSpan(args)
  /\ ZoomOf(result2) < ZoomOf(result)

\* lons and lats, or lonlats, as the signature of zoom_center documents them
ValidCenterData(a) ==
  \/ /\ a.lons.k = "tuple" /\ a.lons.items # <<>>
     /\ a.lats.k = "tuple" /\ a.lats.items # <<>>
  \/ /\ a.lons.k = "None" /\ a.lats.k = "None"
     /\ a.lonlats.k = "tuple" /\ a.lonlats.items # <<>>

\* C8: zoom_center with valid coordinate data and a projection other than
\* 'mercator' raises NotImplementedError and returns neither a zoom nor a
\* center.
C8_OtherProjectionRaises ==
  (/\ call = "zoom_center"
   /\ ValidCenterData(args)
   /\ args.projection # "mercator")
  => /\ result.kind = "NotImplementedError"
     /\ result.value = None

C8_Witness ==
  /\ call = "zoom_center"
  /\ ValidCenterData(args)
  /\ args.projection = "albers"
  /\ result.kind = "NotImplementedError"

\* C9: zoom_center needs both lons and lats, or lonlats: a call with none of
\* them, or with only one of lons / lats, raises ValueError and returns
\* nothing; a call with lonlats as any sequence of pairs is accepted and
\* returns what the equivalent lons and lats return.
C9_IncompleteDataRaisesValueError ==
  (call = "zoom_center" /\ args2 = None)
  => /\ (args.lonlats.k = "None" /\ (args.lons.k = "None" \/ args.lats.k = "None"))
          => (result.kind = "ValueError" /\ result.value = None)
     /\ (/\ args.lons.k = "None" /\ args.lats.k = "None"
         /\ args.lonlats.k \in {"tuple", "list"}
         /\ args.lonlats.items # <<>>)
          => result =
               zoom_center(
                 Tuple([j \in 1..Len(args.lonlats.items) |-> args.lonlats.items[j][1]]),
                 Tuple([j \in 1..Len(args.lonlats.items) |-> args.lonlats.items[j][2]]),
                 None, args.format, args.projection, args.width_to_height)

====
